---- MODULE Spec2Model ----
(***************************************************************************)
(* Persistence gateway of the iFood financial analysis dashboard           *)
(* (src/lib/data.ts): every operation tries Supabase first and falls back   *)
(* to localStorage.  One action per exported function; the remote outcome   *)
(* of every Supabase call is an input of the action.                        *)
(***************************************************************************)
EXTENDS Integers, Sequences, FiniteSets, TLC

VARIABLES env, historico, usuario, session, localStorage, last, inflight

vars == <<env, historico, usuario, session, localStorage, last, inflight>>

(***************************************************************************)
(* Bounds and input sets                                                    *)
(***************************************************************************)
NIds == 2
NTenants == 2
NUsers == 2
MaxLocal == 2
MaxValue == 2
MaxLen == 5
MaxCalls == 2

IdNames == <<"a1", "a2", "a3">>
TenantNames == <<"t1", "t2", "t3">>
UserNames == <<"u1", "u2", "u3">>
\* formData.periodo, a string, as its sequence of characters
Periodos == <<<<"0", "1">>, <<"0", "2">>, <<>>>>

Ids == {IdNames[i] : i \in 1..NIds}
TenantIds == {TenantNames[i] : i \in 1..NTenants}
UserIds == {UserNames[i] : i \in 1..NUsers}

\* AnalysisData (types.ts, used at data.ts:150-157): the analysis with id
\* number i carries period i and timestamp i
Analyses ==
  {[id |-> IdNames[i], userId |-> u, tenantId |-> t,
    formData |-> [periodo |-> Periodos[i]],
    calculatedData |-> [rbr |-> i], timestamp |-> i] :
      i \in 1..NIds, u \in UserIds, t \in TenantIds}

\* substrings passed to getAnalysisByPeriod
Substrings == {<<>>, <<"1">>, <<"1", "0">>}

\* User (types.ts, used at data.ts:85-92); id and tenantId may be empty
Users ==
  {[id |-> i, email |-> "e", name |-> n, tenantId |-> t, role |-> "r",
    createdAt |-> 1] :
      i \in {"", "u1"}, n \in {"n1", "n2"}, t \in {"", "t1"}}

\* a field of the form as the caller passes it: a number, NaN (a text that
\* is no number), or undefined (an absent field)
FieldValues ==
  [t : {"number"}, v : -MaxValue..MaxValue]
    \cup {[t |-> "NaN", v |-> 0], [t |-> "undefined", v |-> 0]}

\* FormData (utils.ts:73, 95)
Forms ==
  [vbv : FieldValues, valoresPagosCliente : FieldValues, vrl : FieldValues,
   vrlj : FieldValues]

\* the characters typed in a currency field: digits, the two separators,
\* the sign, and R for everything normalizeNumber throws away
Chars == {"0", "1", ".", ",", "-", "R"}

\* the formats named in utils.ts:14, 42 and 45
Examples ==
  {<<"5", "0", ".", "8", "8", "9", ",", "2", "0">>,
   <<"1", ".", "2", "3", "4", ".", "5", "6", "7", ",", "8", "9">>,
   <<"1", "2", "3", ",", "4", "5">>,
   <<"1", "2", "3", "4", ",", "5", "6">>,
   <<"1", ".", "0", "0", "0">>,
   <<"1", "2", "3", ".", "4", "5">>}

\* a string is the sequence of its characters
Strings ==
  UNION {[1..n -> Chars] : n \in 0..MaxLen} \cup Examples

\* outcome of one Supabase call: answered, or failed (error or exception)
Outcomes == {"ok", "fail"}

(***************************************************************************)
(* localStorage values: getItem returns null or a string; a string is the  *)
(* empty string, text JSON.parse rejects, or the JSON text of a value       *)
(***************************************************************************)
NullItem == [kind |-> "null", val |-> <<>>]
EmptyText == [kind |-> "empty", val |-> <<>>]
CorruptText == [kind |-> "corrupt", val |-> <<>>]

JArray(s) == [t |-> "array", v |-> s]
JObject(r) == [t |-> "object", v |-> r]
JNull == [t |-> "null", v |-> <<>>]

\* JSON.stringify(value)
Stringify(j) == [kind |-> "json", val |-> j]

\* JSON.parse(text): throws on text that is no JSON
Parse(text) ==
  IF text.kind = "json" THEN [ok |-> TRUE, val |-> text.val]
  ELSE [ok |-> FALSE, val |-> JNull]

\* !raw : null and "" are falsy
Falsy(text) == text.kind \in {"null", "empty"}

UserKey == <<"ifood-user">>
\* `ifood-analyses-${tenantId}`
AnalysesKey(tenantId) == <<"ifood-analyses", tenantId>>

Keys == {UserKey} \cup {AnalysesKey(t) : t \in TenantIds}

SetItem(ls, k, text) == [ls EXCEPT ![k] = text]
RemoveItem(ls, k) == [ls EXCEPT ![k] = NullItem]

(***************************************************************************)
(* Environment                                                              *)
(***************************************************************************)
\* a runtime check that takes every runtime for a browser
IsBrowserAlways == TRUE
\* typeof window !== 'undefined'
IsBrowser == env.window

\* the check with the access credential forgotten
isSupabaseAvailableUrlOnly == env.window /\ env.url
isSupabaseAvailable == env.window /\ env.url /\ env.key

(***************************************************************************)
(* Remote table historicodeanalise: rows in snake_case, primary key id      *)
(***************************************************************************)
ToRow(a) ==
  [id |-> a.id, user_id |-> a.userId, tenant_id |-> a.tenantId,
   form_data |-> a.formData, calculated_data |-> a.calculatedData,
   timestamp |-> a.timestamp]

\* the mapping with user_id read from the wrong column
FromRowWrongColumn(row) ==
  [id |-> row.id, userId |-> row.id, tenantId |-> row.tenant_id,
   formData |-> row.form_data, calculatedData |-> row.calculated_data,
   timestamp |-> row.timestamp]
FromRow(row) ==
  [id |-> row.id, userId |-> row.user_id, tenantId |-> row.tenant_id,
   formData |-> row.form_data, calculatedData |-> row.calculated_data,
   timestamp |-> row.timestamp]

Range(s) == {s[i] : i \in 1..Len(s)}

\* .insert(row): a row with the same primary key is a constraint error
Insert(table, row) ==
  IF \E r \in table : r.id = row.id
  THEN [error |-> TRUE, table |-> table]
  ELSE [error |-> FALSE, table |-> table \cup {row}]

\* .upsert(rows, { onConflict: 'id' }): one statement; a batch that names the
\* same id twice is rejected as a whole, otherwise each row replaces the row
\* of its id or is added
\* the batch written as a plain insert that ignores the conflict key
UpsertAsInsert(table, rows) ==
  [error |-> FALSE, table |-> table \cup Range(rows)]
Upsert(table, rows) ==
  IF \E i, j \in 1..Len(rows) : i # j /\ rows[i].id = rows[j].id
  THEN [error |-> TRUE, table |-> table]
  ELSE [error |-> FALSE,
        table |-> {r \in table : \A i \in 1..Len(rows) : rows[i].id # r.id}
                  \cup Range(rows)]

\* .delete().eq('id', id).eq('tenant_id', tenantId)
Delete(table, id, tenantId) ==
  {r \in table : ~(r.id = id /\ r.tenant_id = tenantId)}

\* .select('*').eq('tenant_id', t)
\* the query without its tenant filter
SelectAnyTenant(table, tenantId) == table
SelectTenant(table, tenantId) == {r \in table : r.tenant_id = tenantId}

\* .order('timestamp', { ascending: false }): the orders the database may
\* return; rows of equal timestamp come in any order
RECURSIVE Orders(_)
Orders(rows) ==
  IF rows = {} THEN {<<>>}
  ELSE LET top == {r \in rows : \A q \in rows : q.timestamp <= r.timestamp}
       IN UNION {{<<r>> \o rest : rest \in Orders(rows \ {r})} : r \in top}

\* data.map(row => ...) and localAnalyses.map(a => ...)
FromRows(data) == [i \in 1..Len(data) |-> FromRow(data[i])]
ToRows(list) == [i \in 1..Len(list) |-> ToRow(list[i])]

\* String.prototype.includes
Includes(s, sub) ==
  \E k \in 0..(Len(s) - Len(sub)) : SubSeq(s, k + 1, k + Len(sub)) = sub

(***************************************************************************)
(* The result of one call: the stores it leaves, the branch it took, what   *)
(* it returned, whether it raised, and the storage calls it issued in order *)
(***************************************************************************)
Void == <<>>

RemoteTags ==
  {"auth.getUser", "auth.signOut", "Usuario.select", "Usuario.upsert",
   "historicodeanalise.insert", "historicodeanalise.select",
   "historicodeanalise.delete", "historicodeanalise.upsert"}

RemoteCalls(log) == {i \in 1..Len(log) : log[i] \in RemoteTags}

Run(hist, usr, ses, ls, path, raised, ret, log) ==
  [hist |-> hist, usr |-> usr, ses |-> ses, ls |-> ls, path |-> path,
   raised |-> raised, ret |-> ret, log |-> log]

\* a call that returns at once: typeof window === 'undefined'
Skip(ret) ==
  Run(historico, usuario, session, localStorage, "skip", FALSE, ret, <<>>)

\* a read: the stores stay as they are
Read(path, ret, log) ==
  Run(historico, usuario, session, localStorage, path, FALSE, ret, log)

\* the remote attempt a call logs before it falls back
Tried(tag) == IF isSupabaseAvailable THEN <<tag>> ELSE <<>>

(***************************************************************************)
(* saveAnalysis                                                             *)
(***************************************************************************)
saveAnalysisLocal(analysis) ==
  LET key == AnalysesKey(analysis.tenantId)
      raw == localStorage[key]
      p == Parse(IF Falsy(raw) THEN Stringify(JArray(<<>>)) ELSE raw)
      log == Tried("historicodeanalise.insert") \o <<"localStorage.getItem">>
  IN IF ~p.ok \/ p.val.t # "array"
     THEN \* JSON.parse throws, or arr.push is not a function
          Run(historico, usuario, session, localStorage, "local", TRUE,
              Void, log)
     ELSE Run(historico, usuario, session,
              SetItem(localStorage, key,
                      Stringify(JArray(Append(p.val.v, analysis)))),
              "local", FALSE, Void, log \o <<"localStorage.setItem">>)

saveAnalysis(analysis, out) ==
  LET ins == Insert(historico, ToRow(analysis))
  IN IF ~IsBrowser THEN Skip(Void)
     ELSE IF isSupabaseAvailable /\ out = "ok" /\ ~ins.error
     THEN Run(ins.table, usuario, session, localStorage, "remote", FALSE,
              Void, <<"historicodeanalise.insert">>)
     ELSE saveAnalysisLocal(analysis)

(***************************************************************************)
(* loadAnalyses: the set of its possible results, one per remote outcome    *)
(* and per order of equal timestamps                                        *)
(***************************************************************************)
loadAnalysesLocal(tenantId) ==
  LET raw == localStorage[AnalysesKey(tenantId)]
      p == Parse(raw)
  IN IF Falsy(raw) THEN <<>>
     ELSE IF ~p.ok THEN <<>>
     ELSE IF p.val.t = "array" THEN p.val.v
     ELSE <<>>

loadAnalyses(tenantId) ==
  IF ~IsBrowser THEN {Skip(<<>>)}
  ELSE (IF isSupabaseAvailable
        THEN {Read("remote", FromRows(data),
                   <<"historicodeanalise.select">>) :
                data \in Orders(SelectTenant(historico, tenantId))}
        ELSE {})
       \cup {Read("local", loadAnalysesLocal(tenantId),
                  Tried("historicodeanalise.select")
                    \o <<"localStorage.getItem">>)}

(***************************************************************************)
(* deleteAnalysis                                                           *)
(***************************************************************************)
\* the fallback removing one record (splice at indexOf) instead of filtering
deleteAnalysisLocalFirstOnly(analysisId, tenantId) ==
  LET key == AnalysesKey(tenantId)
      raw == localStorage[key]
      p == Parse(IF Falsy(raw) THEN Stringify(JArray(<<>>)) ELSE raw)
      log == Tried("historicodeanalise.delete") \o <<"localStorage.getItem">>
      RECURSIVE removeFirst(_)
      removeFirst(s) ==
        IF s = <<>> THEN <<>>
        ELSE IF Head(s).id = analysisId THEN Tail(s)
        ELSE <<Head(s)>> \o removeFirst(Tail(s))
  IN IF ~p.ok \/ p.val.t # "array"
     THEN Run(historico, usuario, session, localStorage, "local", TRUE,
              Void, log)
     ELSE Run(historico, usuario, session,
              SetItem(localStorage, key,
                      Stringify(JArray(removeFirst(p.val.v)))),
              "local", FALSE, Void, log \o <<"localStorage.setItem">>)
deleteAnalysisLocal(analysisId, tenantId) ==
  LET key == AnalysesKey(tenantId)
      raw == localStorage[key]
      p == Parse(IF Falsy(raw) THEN Stringify(JArray(<<>>)) ELSE raw)
      log == Tried("historicodeanalise.delete") \o <<"localStorage.getItem">>
  IN IF ~p.ok \/ p.val.t # "array"
     THEN \* JSON.parse throws, or arr.filter is not a function
          Run(historico, usuario, session, localStorage, "local", TRUE,
              Void, log)
     ELSE Run(historico, usuario, session,
              SetItem(localStorage, key,
                      Stringify(JArray(
                        SelectSeq(p.val.v, LAMBDA a : a.id # analysisId)))),
              "local", FALSE, Void, log \o <<"localStorage.setItem">>)

deleteAnalysis(analysisId, tenantId, out) ==
  IF ~IsBrowser THEN Skip(Void)
  ELSE IF isSupabaseAvailable /\ out = "ok"
  THEN Run(Delete(historico, analysisId, tenantId), usuario, session,
           localStorage, "remote", FALSE, Void,
           <<"historicodeanalise.delete">>)
  ELSE deleteAnalysisLocal(analysisId, tenantId)

(***************************************************************************)
(* saveAnalysis and deleteAnalysis as the steps of calls that overlap.  The *)
(* windows of one origin share localStorage and the remote tables.  Within  *)
(* a window a call runs until its next await: from the call to the request  *)
(* sent to Supabase, and from the answer through the whole fallback, which  *)
(* has no await.  Between windows nothing orders getItem and setItem.       *)
(***************************************************************************)
Windows == {"w1", "w2"}

MutatingCalls ==
  {[op |-> "saveAnalysis", args |-> [analysis |-> a]] : a \in Analyses}
    \cup {[op |-> "deleteAnalysis",
           args |-> [analysisId |-> i, tenantId |-> t]] :
            i \in Ids, t \in TenantIds}

TenantOf(call) ==
  IF call.op = "saveAnalysis" THEN call.args.analysis.tenantId
  ELSE call.args.tenantId

\* arr.push(analysis), arr.filter(a => a.id !== analysisId)
Update(call, arr) ==
  IF call.op = "saveAnalysis" THEN Append(arr, call.args.analysis)
  ELSE SelectSeq(arr, LAMBDA a : a.id # call.args.analysisId)

\* the thread of window w is inside a fallback, between getItem and setItem
Busy(w) == \E c \in inflight : c.w = w /\ c.pc = "read"

\* the call sent its request and awaits the answer
Awaiting(w, call) ==
  [n |-> Cardinality(inflight) + 1, w |-> w, op |-> call.op,
   args |-> call.args, pc |-> "awaiting", path |-> "none", arr |-> <<>>]

\* JSON.parse(localStorage.getItem(key) || '[]'): the call holds the list, or
\* ends with the exception
fallbackRead(c) ==
  LET raw == localStorage[AnalysesKey(TenantOf(c))]
      p == Parse(IF Falsy(raw) THEN Stringify(JArray(<<>>)) ELSE raw)
  IN IF ~p.ok \/ p.val.t # "array"
     THEN [c EXCEPT !.pc = "done", !.path = "raised"]
     ELSE [c EXCEPT !.pc = "read", !.path = "local", !.arr = p.val.v]

\* a write-back that reads the key again instead of using the list it holds
fallbackWriteFresh(c) ==
  SetItem(localStorage, AnalysesKey(TenantOf(c)),
          Stringify(JArray(Update(c, loadAnalysesLocal(TenantOf(c))))))
\* localStorage.setItem(key, JSON.stringify(arr)) with the list the call holds
fallbackWrite(c) ==
  SetItem(localStorage, AnalysesKey(TenantOf(c)),
          Stringify(JArray(Update(c, c.arr))))

\* what the caller sees when call c ends
Ended(c) ==
  [op |-> c.op, args |-> c.args, path |-> c.path, raised |-> c.path = "raised",
   ret |-> Void,
   log |-> LET tag == IF c.op = "saveAnalysis"
                      THEN "historicodeanalise.insert"
                      ELSE "historicodeanalise.delete"
           IN IF c.path = "remote" THEN <<tag>>
              ELSE IF c.path = "raised"
              THEN Tried(tag) \o <<"localStorage.getItem">>
              ELSE Tried(tag)
                   \o <<"localStorage.getItem", "localStorage.setItem">>]

(***************************************************************************)
(* getAnalysisByPeriod, getAnalysesByUser                                   *)
(***************************************************************************)
getAnalysisByPeriod(tenantId, contains) ==
  {[r EXCEPT !.ret =
      SelectSeq(r.ret, LAMBDA a : Includes(a.formData.periodo, contains))] :
     r \in loadAnalyses(tenantId)}

\* a getAnalysesByUser whose fallback returns the whole list of the tenant
getAnalysesByUserUnfiltered(userId, tenantId) ==
  IF ~IsBrowser THEN {Skip(<<>>)}
  ELSE (IF isSupabaseAvailable
        THEN {Read("remote", FromRows(data),
                   <<"historicodeanalise.select">>) :
                data \in Orders({r \in historico :
                                   r.user_id = userId
                                   /\ r.tenant_id = tenantId})}
        ELSE {})
       \cup {[r EXCEPT
                !.path = IF r.path = "remote" THEN "reload" ELSE "local",
                !.log = Tried("historicodeanalise.select") \o r.log] :
               r \in loadAnalyses(tenantId)}
getAnalysesByUser(userId, tenantId) ==
  IF ~IsBrowser THEN {Skip(<<>>)}
  ELSE (IF isSupabaseAvailable
        THEN {Read("remote", FromRows(data),
                   <<"historicodeanalise.select">>) :
                data \in Orders({r \in historico :
                                   r.user_id = userId
                                   /\ r.tenant_id = tenantId})}
        ELSE {})
       \cup {[r EXCEPT
                !.ret = SelectSeq(r.ret, LAMBDA a : a.userId = userId),
                !.path = IF r.path = "remote" THEN "reload" ELSE "local",
                !.log = Tried("historicodeanalise.select") \o r.log] :
               r \in loadAnalyses(tenantId)}

(***************************************************************************)
(* syncLocalStorageToSupabase                                               *)
(***************************************************************************)
\* a sync that drops the local list once the batch is stored remotely
syncLocalStorageToSupabaseClearing(tenantId, out) ==
  LET raw == localStorage[AnalysesKey(tenantId)]
      p == Parse(raw)
      ups == Upsert(historico, ToRows(p.val.v))
  IN IF ~isSupabaseAvailable THEN Skip(Void)
     ELSE IF Falsy(raw) \/ ~p.ok \/ p.val.t # "array"
     THEN Read("noop", Void, <<"localStorage.getItem">>)
     ELSE IF p.val.v = <<>>
     THEN Read("noop", Void, <<"localStorage.getItem">>)
     ELSE IF out = "ok" /\ ~ups.error
     THEN Run(ups.table, usuario, session,
              RemoveItem(localStorage, AnalysesKey(tenantId)), "remote",
              FALSE, Void,
              <<"localStorage.getItem", "historicodeanalise.upsert">>)
     ELSE Read("failed", Void,
               <<"localStorage.getItem", "historicodeanalise.upsert">>)
syncLocalStorageToSupabase(tenantId, out) ==
  LET raw == localStorage[AnalysesKey(tenantId)]
      p == Parse(raw)
      ups == Upsert(historico, ToRows(p.val.v))
  IN IF ~isSupabaseAvailable THEN Skip(Void)
     ELSE IF Falsy(raw) \/ ~p.ok \/ p.val.t # "array"
     THEN Read("noop", Void, <<"localStorage.getItem">>)
     ELSE IF p.val.v = <<>>
     THEN Read("noop", Void, <<"localStorage.getItem">>)
     ELSE IF out = "ok" /\ ~ups.error
     THEN Run(ups.table, usuario, session, localStorage, "remote", FALSE,
              Void, <<"localStorage.getItem", "historicodeanalise.upsert">>)
     ELSE Read("failed", Void,
               <<"localStorage.getItem", "historicodeanalise.upsert">>)

(***************************************************************************)
(* Remote table Usuario and the auth session                                *)
(***************************************************************************)
UserToRow(user) ==
  [id |-> user.id, email |-> user.email, name |-> user.name,
   tenant_id |-> user.tenantId, role |-> user.role,
   created_at |-> user.createdAt]

UserFromRow(row) ==
  [id |-> row.id, email |-> row.email, name |-> row.name,
   tenantId |-> row.tenant_id, role |-> row.role,
   createdAt |-> row.created_at]

\* a string is truthy when it is not empty
Truthy(str) == str # ""

\* the cached user returned without the check of id and tenantId
cachedUserUnchecked ==
  LET raw == localStorage[UserKey]
      p == Parse(raw)
  IN IF Falsy(raw) THEN JNull
     ELSE IF ~p.ok THEN JNull
     ELSE p.val
\* the cached user, as the fallback of getCurrentUser reads it
cachedUser ==
  LET raw == localStorage[UserKey]
      p == Parse(raw)
  IN IF Falsy(raw) THEN JNull
     ELSE IF ~p.ok THEN JNull
     ELSE IF p.val.t = "object" /\ Truthy(p.val.v.id)
             /\ Truthy(p.val.v.tenantId)
     THEN p.val
     ELSE JNull

\* getCurrentUser: outAuth is the outcome of auth.getUser, outRow that of
\* the select on Usuario
getCurrentUser(outAuth, outRow) ==
  LET rows == {r \in usuario : r.id \in session}
      local(log) == Read("local", cachedUser, log \o <<"localStorage.getItem">>)
  IN IF ~IsBrowser THEN Skip(JNull)
     ELSE IF ~isSupabaseAvailable THEN local(<<>>)
     ELSE IF outAuth # "ok" \/ session = {} THEN local(<<"auth.getUser">>)
     ELSE IF outRow = "ok" /\ Cardinality(rows) = 1
     THEN Read("remote", JObject(UserFromRow(CHOOSE r \in rows : TRUE)),
               <<"auth.getUser", "Usuario.select">>)
     ELSE local(<<"auth.getUser", "Usuario.select">>)

saveUser(user, out) ==
  LET ups == Upsert(usuario, <<UserToRow(user)>>)
      cached == SetItem(localStorage, UserKey, Stringify(JObject(user)))
  IN IF ~IsBrowser THEN Skip(Void)
     ELSE IF isSupabaseAvailable /\ out = "ok" /\ ~ups.error
     THEN Run(historico, ups.table, session, cached, "remote", FALSE, Void,
              <<"Usuario.upsert", "localStorage.setItem">>)
     ELSE Run(historico, usuario, session, cached, "local", FALSE, Void,
              Tried("Usuario.upsert") \o <<"localStorage.setItem">>)

\* logout clearing the cache inside the try, after a sign-out that worked
logoutInsideTry(out) ==
  IF ~IsBrowser THEN Skip(Void)
  ELSE IF isSupabaseAvailable /\ out # "ok"
  THEN Run(historico, usuario, session, localStorage, "local", FALSE, Void,
           <<"auth.signOut">>)
  ELSE Run(historico, usuario,
           IF isSupabaseAvailable THEN {} ELSE session,
           RemoveItem(localStorage, UserKey),
           IF isSupabaseAvailable THEN "remote" ELSE "local",
           FALSE, Void,
           Tried("auth.signOut") \o <<"localStorage.removeItem">>)
logout(out) ==
  IF ~IsBrowser THEN Skip(Void)
  ELSE Run(historico, usuario,
           IF isSupabaseAvailable /\ out = "ok" THEN {} ELSE session,
           RemoveItem(localStorage, UserKey),
           IF isSupabaseAvailable /\ out = "ok" THEN "remote" ELSE "local",
           FALSE, Void,
           Tried("auth.signOut") \o <<"localStorage.removeItem">>)

(***************************************************************************)
(* The Number type: IEEE-754 binary64, round to nearest, ties to even.      *)
(* A natural number of any size is its sequence of bits, most significant   *)
(* first and without leading zero; a Number is [neg, m, e], of value        *)
(* m * 2^e (negated when neg), with m odd or zero.  The values met here are  *)
(* far from the subnormal and the overflow range.  Sums and products are    *)
(* computed on limbs of LimbBits bits, least significant limb first.        *)
(***************************************************************************)
Precision == 53
LimbBits == 12
Base == 2^LimbBits

Zeros(n) == [i \in 1..n |-> 0]

Pad(b, n) == Zeros(n - Len(b)) \o b

\* b without its leading zeros
Trim(b) ==
  LET ones == {i \in 1..Len(b) : b[i] = 1}
  IN IF ones = {} THEN <<>>
     ELSE SubSeq(b, CHOOSE i \in ones : \A j \in ones : i <= j, Len(b))

\* the value of a sequence of at most LimbBits bits
RECURSIVE Val(_)
Val(b) ==
  IF b = <<>> THEN 0 ELSE 2 * Val(SubSeq(b, 1, Len(b) - 1)) + b[Len(b)]

ToLimbs(b) ==
  LET n == (Len(b) + LimbBits - 1) \div LimbBits
      p == Pad(b, n * LimbBits)
  IN [j \in 1..n |->
        Val(SubSeq(p, (n - j) * LimbBits + 1, (n - j + 1) * LimbBits))]

FromLimbs(l) ==
  LET n == Len(l)
  IN Trim([i \in 1..(n * LimbBits) |->
             (l[n - ((i - 1) \div LimbBits)]
                \div 2^(LimbBits - 1 - ((i - 1) % LimbBits))) % 2])

\* the bits of a small natural
Bits(n) == FromLimbs(<<n % Base, (n \div Base) % Base, n \div (Base * Base)>>)

Limb(l, j) == IF j <= Len(l) THEN l[j] ELSE 0

AddBits(a, b) ==
  LET x == ToLimbs(a)
      y == ToLimbs(b)
      n == IF Len(x) > Len(y) THEN Len(x) ELSE Len(y)
      RECURSIVE go(_, _)
      go(j, carry) ==
        IF j > n THEN <<carry>>
        ELSE <<(Limb(x, j) + Limb(y, j) + carry) % Base>>
             \o go(j + 1, (Limb(x, j) + Limb(y, j) + carry) \div Base)
  IN FromLimbs(go(1, 0))

\* a - b for a >= b
SubBits(a, b) ==
  LET x == ToLimbs(a)
      y == ToLimbs(b)
      RECURSIVE go(_, _)
      go(j, borrow) ==
        IF j > Len(x) THEN <<>>
        ELSE <<(Limb(x, j) - Limb(y, j) - borrow) % Base>>
             \o go(j + 1, IF Limb(x, j) - Limb(y, j) - borrow < 0
                          THEN 1 ELSE 0)
  IN FromLimbs(go(1, 0))

LessBits(a, b) ==
  \/ Len(a) < Len(b)
  \/ /\ Len(a) = Len(b)
     /\ \E i \in 1..Len(a) :
          /\ a[i] < b[i]
          /\ \A j \in 1..(i - 1) : a[j] = b[j]

\* a * k for a natural k < Base
MulBits(a, k) ==
  LET x == ToLimbs(a)
      RECURSIVE go(_, _)
      go(j, carry) ==
        IF j > Len(x) THEN <<carry>>
        ELSE <<(x[j] * k + carry) % Base>>
             \o go(j + 1, (x[j] * k + carry) \div Base)
  IN FromLimbs(go(1, 0))

\* quotient and remainder of the division of a by a natural k, 0 < k < Base
DivBits(a, k) ==
  LET x == ToLimbs(a)
      RECURSIVE rem(_)
      rem(j) == IF j > Len(x) THEN 0 ELSE (rem(j + 1) * Base + x[j]) % k
  IN [q |-> FromLimbs([j \in 1..Len(x) |->
                         (rem(j + 1) * Base + x[j]) \div k]),
      r |-> rem(1)]

\* the same value with m odd, and one zero
Canon(x) ==
  LET ones == {i \in 1..Len(x.m) : x.m[i] = 1}
      low == CHOOSE i \in ones : \A j \in ones : i >= j
  IN IF ones = {} THEN [neg |-> FALSE, m |-> <<>>, e |-> 0]
     ELSE [neg |-> x.neg, m |-> SubSeq(Trim(x.m), 1, Len(Trim(x.m))
                                         - (Len(x.m) - low)),
           e |-> x.e + (Len(x.m) - low)]

Abs(n) == IF n < 0 THEN -n ELSE n

\* the Number of a small integer
Num(n) == Canon([neg |-> n < 0, m |-> Bits(Abs(n)), e |-> 0])

\* the exact value m * 2^e, inexact when bits were lost below it, rounded to
\* the nearest Number
Round(x, inexact) ==
  LET n == Len(x.m)
      keep == SubSeq(x.m, 1, Precision)
      rest == SubSeq(x.m, Precision + 1, n)
      more == inexact \/ \E i \in 2..Len(rest) : rest[i] = 1
      up == rest[1] = 1 /\ (more \/ keep[Precision] = 1)
  IN IF n <= Precision THEN Canon(x)
     ELSE Canon([neg |-> x.neg,
                 m |-> IF up THEN AddBits(keep, <<1>>) ELSE keep,
                 e |-> x.e + (n - Precision)])

\* exact sum and difference of two Numbers, and exact product of a Number
\* and a Number whose m is below Base
Exact(x, y, op) ==
  LET e == IF x.e < y.e THEN x.e ELSE y.e
      a == x.m \o Zeros(x.e - e)
      b == y.m \o Zeros(y.e - e)
      yneg == IF op = "-" THEN ~y.neg ELSE y.neg
  IN IF op = "*"
     THEN Canon([neg |-> x.neg # y.neg, m |-> MulBits(x.m, Val(y.m)),
                 e |-> x.e + y.e])
     ELSE IF x.neg = yneg
     THEN Canon([neg |-> x.neg, m |-> AddBits(a, b), e |-> e])
     ELSE IF LessBits(Trim(a), Trim(b))
     THEN Canon([neg |-> yneg, m |-> SubBits(b, a), e |-> e])
     ELSE Canon([neg |-> x.neg, m |-> SubBits(a, b), e |-> e])

\* x + y, x - y and x * y as the runtime computes them
Plus(x, y) == Round(Exact(x, y, "+"), FALSE)
Minus(x, y) == Round(Exact(x, y, "-"), FALSE)
Times(x, y) == Round(Exact(x, y, "*"), FALSE)

\* a / b for small integers a and b > 0: the quotient of a * 2^k by b has
\* more than Precision + 2 bits, the remainder tells whether it is exact
Over(a, b) ==
  LET k == Precision + 3 + Len(Bits(b))
      d == DivBits(Bits(Abs(a)) \o Zeros(k), b)
  IN Round([neg |-> a < 0, m |-> d.q, e |-> -k], d.r # 0)

(***************************************************************************)
(* Metrics and form validation (src/lib/utils.ts)                           *)
(***************************************************************************)
\* Number(x) || 0: NaN and undefined become 0
NumberOrZero(x) == IF x.t = "number" THEN x.v ELSE 0

\* the profitability left as a fraction, not multiplied by 100
calculateMetricsFraction(data) ==
  LET vbv == NumberOrZero(data.vbv)
      valoresPagosCliente == NumberOrZero(data.valoresPagosCliente)
      vrl == NumberOrZero(data.vrl)
      vrlj == NumberOrZero(data.vrlj)
      base == vbv - valoresPagosCliente
      liquida == vrl + vrlj
      rentabilidade == IF base > 0 THEN Over(liquida, base) ELSE Num(0)
  IN [rbr |-> base, rol |-> liquida, rentabilidadeLiquida |-> rentabilidade,
      retencaoIfoodPercentual |-> Minus(Num(100), rentabilidade),
      valorRetidoIfood |-> base - liquida]
\* calculateMetrics: rbr, rol and valorRetidoIfood are integers small enough
\* to be exact in a Number and are kept as integers; the two percentages
\* are Numbers
calculateMetrics(data) ==
  LET vbv == NumberOrZero(data.vbv)
      valoresPagosCliente == NumberOrZero(data.valoresPagosCliente)
      vrl == NumberOrZero(data.vrl)
      vrlj == NumberOrZero(data.vrlj)
      base == vbv - valoresPagosCliente
      liquida == vrl + vrlj
      rentabilidade ==
        IF base > 0 THEN Times(Over(liquida, base), Num(100)) ELSE Num(0)
  IN [rbr |-> base, rol |-> liquida, rentabilidadeLiquida |-> rentabilidade,
      retencaoIfoodPercentual |-> Minus(Num(100), rentabilidade),
      valorRetidoIfood |-> base - liquida]

\* a validation in which a warning makes the form invalid
validateFormDataStrict(data) ==
  LET vbv == NumberOrZero(data.vbv)
      vpc == NumberOrZero(data.valoresPagosCliente)
      vrl == NumberOrZero(data.vrl)
      vrlj == NumberOrZero(data.vrlj)
      rbr == vbv - vpc
      rol == vrl + vrlj
      errs ==
        (IF vbv <= 0 THEN <<[field |-> "vbv"]>> ELSE <<>>)
        \o (IF vpc < 0 THEN <<[field |-> "valoresPagosCliente"]>> ELSE <<>>)
        \o (IF rbr <= 0 THEN <<[field |-> "base"]>> ELSE <<>>)
      warns == IF rol > rbr THEN <<"ROL maior">> ELSE <<>>
  IN [isValid |-> Len(errs) = 0 /\ Len(warns) = 0, errors |-> errs,
      warnings |-> warns]
validateFormData(data) ==
  LET vbv == NumberOrZero(data.vbv)
      vpc == NumberOrZero(data.valoresPagosCliente)
      vrl == NumberOrZero(data.vrl)
      vrlj == NumberOrZero(data.vrlj)
      rbr == vbv - vpc
      rol == vrl + vrlj
      errs ==
        (IF vbv <= 0 THEN <<[field |-> "vbv"]>> ELSE <<>>)
        \o (IF vpc < 0 THEN <<[field |-> "valoresPagosCliente"]>> ELSE <<>>)
        \o (IF rbr <= 0 THEN <<[field |-> "base"]>> ELSE <<>>)
      warns == IF rol > rbr THEN <<"ROL maior">> ELSE <<>>
  IN [isValid |-> Len(errs) = 0, errors |-> errs, warnings |-> warns]

(***************************************************************************)
(* normalizeNumber (src/lib/utils.ts)                                       *)
(***************************************************************************)
Digits == <<"0", "1", "2", "3", "4", "5", "6", "7", "8", "9">>

IsDigit(c) == \E i \in 1..10 : Digits[i] = c

DigitValue(c) == (CHOOSE i \in 1..10 : Digits[i] = c) - 1

\* the natural number a sequence of digits writes
RECURSIVE Decimal(_)
Decimal(ds) ==
  IF ds = <<>> THEN 0
  ELSE 10 * Decimal(SubSeq(ds, 1, Len(ds) - 1)) + DigitValue(ds[Len(ds)])

\* the value parseFloat gives when no number starts the string; it is not
\* the Number of any value
NaN == [neg |-> FALSE, m |-> <<>>, e |-> -1]

NumberIsFinite(n) == n # NaN

\* how many digits start the string
LeadingDigits(str) ==
  CHOOSE n \in 0..Len(str) :
    /\ \A i \in 1..n : IsDigit(str[i])
    /\ n = Len(str) \/ ~IsDigit(str[n + 1])

\* parseFloat on a string of digits, '.', ',' and '-': the longest prefix
\* that is a decimal literal, rounded to the nearest Number
parseFloat(str) ==
  LET neg == str # <<>> /\ str[1] = "-"
      body == IF neg THEN Tail(str) ELSE str
      whole == LeadingDigits(body)
      after == SubSeq(body, whole + 1, Len(body))
      point == after # <<>> /\ after[1] = "."
      places == IF point THEN LeadingDigits(Tail(after)) ELSE 0
      written ==
        Decimal(SubSeq(body, 1, whole) \o SubSeq(after, 2, places + 1))
  IN IF whole = 0 /\ places = 0 THEN NaN
     ELSE Over(IF neg THEN -written ELSE written, 10^places)

\* str.replace(/c/g, ""), for a set of characters
RemoveAll(str, cs) == SelectSeq(str, LAMBDA c : c \notin cs)

\* str.replace(",", "."): the first comma only
ReplaceFirstComma(str) ==
  IF ~Includes(str, <<",">>) THEN str
  ELSE [str EXCEPT
          ![CHOOSE i \in 1..Len(str) :
              str[i] = "," /\ \A j \in 1..(i - 1) : str[j] # ","] = "."]

\* the text after the first '.', parts[1] of str.split('.')
AfterDot(str) ==
  LET i == CHOOSE k \in 1..Len(str) :
             str[k] = "." /\ \A j \in 1..(k - 1) : str[j] # "."
  IN SubSeq(str, i + 1, Len(str))

\* the cleaned text: trim, then the two replace calls of utils.ts:21-23
Clean(value) ==
  SelectSeq(RemoveAll(value, {"R", "$", " "}),
            LAMBDA c : IsDigit(c) \/ c \in {".", ",", "-"})

\* a normalizeNumber that reads every single '.' as the decimal point
normalizeNumberDecimalDot(value) ==
  LET clean == Clean(value)
      dots == Cardinality({i \in 1..Len(clean) : clean[i] = "."})
      text ==
        IF Includes(clean, <<",">>) /\ Includes(clean, <<".">>)
        THEN ReplaceFirstComma(RemoveAll(clean, {"."}))
        ELSE IF Includes(clean, <<",">>) THEN ReplaceFirstComma(clean)
        ELSE IF dots > 1 THEN RemoveAll(clean, {"."})
        ELSE clean
      n == parseFloat(text)
  IN IF value = <<>> THEN Num(0)
     ELSE IF NumberIsFinite(n) THEN n ELSE Num(0)
\* a normalizeNumber that returns what parseFloat gave
normalizeNumberUnchecked(value) ==
  LET clean == Clean(value)
      dots == Cardinality({i \in 1..Len(clean) : clean[i] = "."})
      text ==
        IF Includes(clean, <<",">>) /\ Includes(clean, <<".">>)
        THEN ReplaceFirstComma(RemoveAll(clean, {"."}))
        ELSE IF Includes(clean, <<",">>) THEN ReplaceFirstComma(clean)
        ELSE IF dots > 1 THEN RemoveAll(clean, {"."})
        ELSE IF dots = 1 /\ Len(AfterDot(clean)) = 3
        THEN RemoveAll(clean, {"."})
        ELSE clean
  IN IF value = <<>> THEN Num(0) ELSE parseFloat(text)
\* normalizeNumber on a string
normalizeNumber(value) ==
  LET clean == Clean(value)
      dots == Cardinality({i \in 1..Len(clean) : clean[i] = "."})
      text ==
        IF Includes(clean, <<",">>) /\ Includes(clean, <<".">>)
        THEN ReplaceFirstComma(RemoveAll(clean, {"."}))
        ELSE IF Includes(clean, <<",">>) THEN ReplaceFirstComma(clean)
        ELSE IF dots > 1 THEN RemoveAll(clean, {"."})
        ELSE IF dots = 1 /\ Len(AfterDot(clean)) = 3
        THEN RemoveAll(clean, {"."})
        ELSE clean
      n == parseFloat(text)
  IN IF value = <<>> THEN Num(0)
     ELSE IF NumberIsFinite(n) THEN n ELSE Num(0)

(***************************************************************************)
(* Actions: one per exported function                                       *)
(***************************************************************************)
\* the records all local lists hold together
LocalRecords(ls) ==
  LET len(text) ==
        IF text.kind = "json" /\ text.val.t = "array" THEN Len(text.val.v)
        ELSE 0
      RECURSIVE sum(_)
      sum(ts) ==
        IF ts = {} THEN 0
        ELSE LET t == CHOOSE x \in ts : TRUE
             IN len(ls[AnalysesKey(t)]) + sum(ts \ {t})
  IN sum(TenantIds)

\* the model keeps localStorage within MaxLocal analysis records
WithinBound(ls) == LocalRecords(ls) <= MaxLocal

Apply(op, args, r) ==
  /\ historico' = r.hist
  /\ usuario' = r.usr
  /\ session' = r.ses
  /\ localStorage' = r.ls
  /\ last' = [op |-> op, args |-> args, path |-> r.path, raised |-> r.raised,
              ret |-> r.ret, log |-> r.log]
  /\ UNCHANGED <<env, inflight>>

SaveAnalysis ==
  \E analysis \in Analyses, out \in Outcomes :
    \E r \in {saveAnalysis(analysis, out)} :
      /\ WithinBound(r.ls)
      /\ Apply("saveAnalysis", [analysis |-> analysis], r)

LoadAnalyses ==
  \E tenantId \in TenantIds : \E r \in loadAnalyses(tenantId) :
    Apply("loadAnalyses", [tenantId |-> tenantId], r)

DeleteAnalysis ==
  \E analysisId \in Ids, tenantId \in TenantIds, out \in Outcomes :
    \E r \in {deleteAnalysis(analysisId, tenantId, out)} :
      Apply("deleteAnalysis",
            [analysisId |-> analysisId, tenantId |-> tenantId], r)

GetAnalysisByPeriod ==
  \E tenantId \in TenantIds, contains \in Substrings :
    \E r \in getAnalysisByPeriod(tenantId, contains) :
      Apply("getAnalysisByPeriod",
            [tenantId |-> tenantId, contains |-> contains], r)

GetAnalysesByUser ==
  \E userId \in UserIds, tenantId \in TenantIds :
    \E r \in getAnalysesByUser(userId, tenantId) :
      Apply("getAnalysesByUser", [userId |-> userId, tenantId |-> tenantId], r)

SyncLocalStorageToSupabase ==
  \E tenantId \in TenantIds, out \in Outcomes :
    \E r \in {syncLocalStorageToSupabase(tenantId, out)} :
      Apply("syncLocalStorageToSupabase", [tenantId |-> tenantId], r)

GetCurrentUser ==
  \E outAuth \in Outcomes, outRow \in Outcomes :
    \E r \in {getCurrentUser(outAuth, outRow)} :
      Apply("getCurrentUser", [outAuth |-> outAuth, outRow |-> outRow], r)

SaveUser ==
  \E user \in Users, out \in Outcomes :
    \E r \in {saveUser(user, out)} : Apply("saveUser", [user |-> user], r)

Logout ==
  \E out \in Outcomes :
    \E r \in {logout(out)} : Apply("logout", <<>>, r)

\* a call of a pure function of utils.ts: no store is read or written
Pure(op, args, ret) ==
  /\ last' = [op |-> op, args |-> args, path |-> "pure", raised |-> FALSE,
              ret |-> ret, log |-> <<>>]
  /\ UNCHANGED <<env, historico, usuario, session, localStorage, inflight>>

\* the page holds a form and calls validateFormData on it
ValidateFormData ==
  /\ last.op = "none"
  /\ "data" \in DOMAIN last.args
  /\ Pure("validateFormData", last.args, validateFormData(last.args.data))

\* the page holds a form and calls calculateMetrics on it
CalculateMetrics ==
  /\ last.op = "none"
  /\ "data" \in DOMAIN last.args
  /\ Pure("calculateMetrics", last.args, calculateMetrics(last.args.data))

\* the currency field holds a text and calls normalizeNumber on it
NormalizeNumber ==
  /\ last.op = "none"
  /\ "value" \in DOMAIN last.args
  /\ Pure("normalizeNumber", last.args, normalizeNumber(last.args.value))

\* a window calls saveAnalysis or deleteAnalysis: the call runs to its await
\* on Supabase or, without Supabase, to the getItem of its fallback
Invoke ==
  \E w \in Windows, call \in MutatingCalls :
    \E c \in {Awaiting(w, call)} :
      /\ Cardinality(inflight) < MaxCalls
      /\ ~Busy(w)
      /\ inflight' = inflight
                      \cup {IF isSupabaseAvailable THEN c ELSE fallbackRead(c)}
      /\ last' = IF ~isSupabaseAvailable /\ fallbackRead(c).pc = "done"
                 THEN Ended(fallbackRead(c)) ELSE last
      /\ UNCHANGED <<env, historico, usuario, session, localStorage>>

\* Supabase answers a call: the write is stored and the call returns, or it
\* failed and the call goes on to the getItem of its fallback
Respond ==
  \E c \in inflight, out \in Outcomes :
    LET ins == Insert(historico, ToRow(c.args.analysis))
        stored == out = "ok" /\ (c.op = "saveAnalysis" => ~ins.error)
        next == IF stored THEN [c EXCEPT !.pc = "done", !.path = "remote"]
                ELSE fallbackRead(c)
    IN /\ c.pc = "awaiting"
       /\ ~Busy(c.w)
       /\ historico' =
            IF ~stored THEN historico
            ELSE IF c.op = "saveAnalysis" THEN ins.table
            ELSE Delete(historico, c.args.analysisId, c.args.tenantId)
       /\ inflight' = (inflight \ {c}) \cup {next}
       /\ last' = IF next.pc = "done" THEN Ended(next) ELSE last
       /\ UNCHANGED <<env, usuario, session, localStorage>>

\* a call in its fallback writes its list back and returns
WriteBack ==
  \E c \in inflight :
    /\ c.pc = "read"
    /\ localStorage' = fallbackWrite(c)
    /\ inflight' = (inflight \ {c}) \cup {[c EXCEPT !.pc = "done"]}
    /\ last' = Ended(c)
    /\ UNCHANGED <<env, historico, usuario, session>>

(***************************************************************************)
(* Specifications                                                           *)
(***************************************************************************)
Envs == [window : BOOLEAN, url : BOOLEAN, key : BOOLEAN]

NoCall ==
  [op |-> "none", args |-> <<>>, path |-> "none", raised |-> FALSE,
   ret |-> Void, log |-> <<>>]

\* what a browser may hold under a key before the program first runs
Leftovers == {NullItem, EmptyText, CorruptText, Stringify(JNull)}

\* the analysis operations, from empty stores, in every environment
Init ==
  /\ env \in Envs
  /\ historico = {}
  /\ usuario = {}
  /\ session = {}
  /\ localStorage = [k \in Keys |-> NullItem]
  /\ last = NoCall
  /\ inflight = {}

Next ==
  \/ SaveAnalysis
  \/ LoadAnalyses
  \/ DeleteAnalysis
  \/ GetAnalysisByPeriod
  \/ GetAnalysesByUser
  \/ SyncLocalStorageToSupabase

Spec == Init /\ [][Next]_vars

\* the analysis operations in a browser whose localStorage holds leftovers:
\* the list of the first tenant is damaged (no JSON, or JSON that is no
\* array), every other list is absent or the empty string
Damaged == {CorruptText, Stringify(JNull)}

InitLeftover ==
  /\ env \in {e \in Envs : e.window}
  /\ historico = {}
  /\ usuario = {}
  /\ session = {}
  /\ localStorage \in
       {[k \in Keys |->
           IF k = UserKey THEN NullItem
           ELSE IF k = AnalysesKey(TenantNames[1]) THEN bad
           ELSE other] :
          bad \in Damaged, other \in {NullItem, EmptyText}}
  /\ last = NoCall
  /\ inflight = {}

SpecLeftover == InitLeftover /\ [][Next]_vars

\* the user operations; the session is the one the auth provider holds
InitUser ==
  /\ env \in Envs
  /\ historico = {}
  /\ usuario = {}
  /\ session \in {{}} \cup {{u} : u \in {"u1", "u2"}}
  /\ localStorage \in
       {[k \in Keys |-> IF k = UserKey /\ env.window THEN text ELSE NullItem] :
          text \in Leftovers}
  /\ last = NoCall
  /\ inflight = {}

NextUser ==
  \/ GetCurrentUser
  \/ SaveUser
  \/ Logout

SpecUser == InitUser /\ [][NextUser]_vars

\* every operation where the remote backend is not usable
InitOffline ==
  /\ env \in {e \in Envs : ~(e.window /\ e.url /\ e.key)}
  /\ historico = {}
  /\ usuario = {}
  /\ session = {"u1"}
  /\ localStorage = [k \in Keys |-> NullItem]
  /\ last = NoCall
  /\ inflight = {}

NextAll == Next \/ NextUser

SpecOffline == InitOffline /\ [][NextAll]_vars

\* every operation outside a browser (server-side rendering): the remote
\* tables and the session hold data, localStorage does not exist
InitServer ==
  /\ env \in {e \in Envs : ~e.window}
  /\ historico \in {{}} \cup {{ToRow(a)} : a \in Analyses}
  /\ usuario \in {{}} \cup {{UserToRow(u)} : u \in {v \in Users : v.id = "u1"}}
  /\ session = {"u1"}
  /\ localStorage = [k \in Keys |-> NullItem]
  /\ last = NoCall
  /\ inflight = {}

SpecServer == InitServer /\ [][NextAll]_vars

\* a call about to be made with the arguments args
Pending(args) == [NoCall EXCEPT !.args = args]

\* the pure functions of utils.ts, as the form page calls them: the start
\* state holds the input the user typed
InitUtils ==
  /\ env = [window |-> TRUE, url |-> TRUE, key |-> TRUE]
  /\ historico = {}
  /\ usuario = {}
  /\ session = {}
  /\ localStorage = [k \in Keys |-> NullItem]
  /\ last \in {Pending([data |-> data]) : data \in Forms}
               \cup {Pending([value |-> value]) : value \in Strings}
  /\ inflight = {}

NextUtils ==
  \/ ValidateFormData
  \/ CalculateMetrics
  \/ NormalizeNumber

SpecUtils == InitUtils /\ [][NextUtils]_vars

\* overlapping saveAnalysis and deleteAnalysis calls from the windows of one
\* origin, with and without Supabase
InitOverlap ==
  /\ env \in {e \in Envs : e.window /\ e.url = e.key}
  /\ historico = {}
  /\ usuario = {}
  /\ session = {}
  /\ localStorage = [k \in Keys |-> NullItem]
  /\ last = NoCall
  /\ inflight = {}

NextOverlap ==
  \/ Invoke
  \/ Respond
  \/ WriteBack

SpecOverlap == InitOverlap /\ [][NextOverlap]_vars

(***************************************************************************)
(* Properties                                                               *)
(***************************************************************************)
Contains(s, x) == \E i \in 1..Len(s) : s[i] = x

\* the list a browser holds under the key of a tenant, <<>> when it holds none
LocalList(tenantId) ==
  LET text == localStorage[AnalysesKey(tenantId)]
  IN IF text.kind = "json" /\ text.val.t = "array" THEN text.val.v ELSE <<>>

\* C1 as stated: in a browser, once saveAnalysis(a) has completed, every
\* loadAnalyses of a.tenantId, whatever the remote outcome of either call,
\* returns a list that contains a
C1_RoundTripAnyOutcome ==
  (last.op = "saveAnalysis" /\ env.window) =>
    \A r \in loadAnalyses(last.args.analysis.tenantId) :
      Contains(r.ret, last.args.analysis)

\* C1 amended: in a browser, once saveAnalysis(a) has completed, a
\* loadAnalyses of a.tenantId that takes the path the save took (both
\* answered by the remote table, or both on localStorage) returns a list that
\* contains a record equal to a
C1_RoundTripSamePath ==
  (last.op = "saveAnalysis" /\ last.path \in {"remote", "local"}) =>
    \A r \in loadAnalyses(last.args.analysis.tenantId) :
      r.path = last.path => Contains(r.ret, last.args.analysis)

C1_Witness ==
  /\ last.op = "saveAnalysis"
  /\ last.path = "remote"
  /\ \E r \in loadAnalyses(last.args.analysis.tenantId) :
       r.path = "remote" /\ Len(r.ret) = 2

\* C2: loadAnalyses(t) never returns a record whose tenantId differs from t,
\* on the remote path and on the local path
C2_TenantIsolation ==
  last.op = "loadAnalyses" =>
    \A i \in 1..Len(last.ret) : last.ret[i].tenantId = last.args.tenantId

C2_Witness ==
  /\ last.op = "loadAnalyses"
  /\ last.path = "remote"
  /\ Len(last.ret) > 0
  /\ \E row \in historico : row.tenant_id # last.args.tenantId
  /\ \E t \in TenantIds : t # last.args.tenantId /\ LocalList(t) # <<>>

\* C3 as stated: no gateway operation raises to its caller, whatever
\* localStorage holds
C3_NeverRaises == ~last.raised

\* C4 as stated: a write that succeeded on the remote backend is in
\* localStorage when the call returns
C4_WriteThrough ==
  /\ (last.op = "saveUser" /\ last.path = "remote") =>
       localStorage[UserKey] = Stringify(JObject(last.args.user))
  /\ (last.op = "saveAnalysis" /\ last.path = "remote") =>
       Contains(LocalList(last.args.analysis.tenantId), last.args.analysis)

\* C5 as stated: after deleteAnalysis(id, t), a second deleteAnalysis(id, t)
\* leaves the remote table and localStorage as they are, whatever its outcome
C5_DeleteTwiceAnyOutcome ==
  last.op = "deleteAnalysis" =>
    \A out \in Outcomes :
      LET r == deleteAnalysis(last.args.analysisId, last.args.tenantId, out)
      IN r.hist = historico /\ r.ls = localStorage

\* C5 amended: after deleteAnalysis(id, t), a second deleteAnalysis(id, t)
\* that takes the same path as the first (both deleted remotely, or both
\* fell back to localStorage) leaves the remote table and localStorage as
\* they are
C5_DeleteTwiceSamePath ==
  last.op = "deleteAnalysis" =>
    \A out \in Outcomes :
      LET r == deleteAnalysis(last.args.analysisId, last.args.tenantId, out)
      IN r.path = last.path => (r.hist = historico /\ r.ls = localStorage)

C5_Witness ==
  /\ last.op = "deleteAnalysis"
  /\ last.path = "local"
  /\ \E t \in TenantIds : LocalList(t) # <<>>
  /\ historico # {}

\* C6: the remote table never holds two rows with the same id, and after a
\* sync of a tenant that was applied, a second sync of the tenant leaves the
\* remote table as it is
C6_SyncIdempotent ==
  /\ \A r1, r2 \in historico : r1.id = r2.id => r1 = r2
  /\ (last.op = "syncLocalStorageToSupabase" /\ last.path = "remote") =>
       \A out \in Outcomes :
         syncLocalStorageToSupabase(last.args.tenantId, out).hist = historico

C6_Witness ==
  /\ last.op = "syncLocalStorageToSupabase"
  /\ last.path = "remote"
  /\ Cardinality(historico) = 2
  /\ \E out \in Outcomes :
       syncLocalStorageToSupabase(last.args.tenantId, out).path = "remote"

\* C7: where the remote backend is not usable (no window, no service URL or
\* no access credential) a call issues no remote call and the remote tables
\* and the session stay as they were
C7_AvailabilityGate ==
  ~(env.window /\ env.url /\ env.key) =>
    /\ RemoteCalls(last.log) = {}
    /\ historico = {}
    /\ usuario = {}
    /\ session = {"u1"}

C7_Witness ==
  /\ env.window /\ env.url /\ ~env.key
  /\ last.op = "saveUser"
  /\ last.log = <<"localStorage.setItem">>
  /\ LocalList("t1") # <<>>

\* C8: in a browser, when logout returns the cached user is absent, and the
\* remote sign-out, when there is one, comes before the local clear
C8_LogoutClears ==
  (last.op = "logout" /\ env.window) =>
    /\ localStorage[UserKey] = NullItem
    /\ \E j \in 1..Len(last.log) :
         /\ last.log[j] = "localStorage.removeItem"
         /\ \A i \in 1..Len(last.log) : last.log[i] = "auth.signOut" => i < j

C8_Witness ==
  /\ last.op = "logout"
  /\ last.path = "local"
  /\ env.window /\ env.url /\ env.key
  /\ session # {}
  /\ usuario # {}

\* C9: getCurrentUser returns the remote profile exactly when the remote is
\* usable, a session exists and the profile fetch returns a row without
\* error; otherwise it returns the cached record when that is an object with
\* a non-empty id and a non-empty tenantId, and null when it is not
C9_Resolution ==
  last.op = "getCurrentUser" =>
    LET rows == {row \in usuario : row.id \in session}
        remote == /\ env.window /\ env.url /\ env.key
                  /\ last.args.outAuth = "ok" /\ session # {}
                  /\ last.args.outRow = "ok" /\ rows # {}
        text == localStorage[UserKey]
        valid == /\ text.kind = "json"
                 /\ text.val.t = "object"
                 /\ text.val.v.id # ""
                 /\ text.val.v.tenantId # ""
    IN /\ remote =>
            \E row \in rows :
              last.ret = JObject([id |-> row.id, email |-> row.email,
                                  name |-> row.name, tenantId |-> row.tenant_id,
                                  role |-> row.role, createdAt |-> row.created_at])
       /\ (~remote /\ env.window /\ valid) => last.ret = text.val
       /\ (~remote /\ ~(env.window /\ valid)) => last.ret = JNull

C9_Witness ==
  /\ last.op = "getCurrentUser"
  /\ last.path = "remote"
  /\ localStorage[UserKey].kind = "json"
  /\ last.ret # localStorage[UserKey].val

\* C10 as stated: no step changes the content of a record: a row of the
\* remote table whose id is still in the table is still that row, and a local
\* list only gains the saved record or loses records
C10_AppendOnly ==
  [][/\ \A row \in historico :
          (\E kept \in historico' : kept.id = row.id) => row \in historico'
     /\ \A t \in TenantIds :
          LET before == localStorage[AnalysesKey(t)]
              after == localStorage'[AnalysesKey(t)]
          IN (before.kind = "json" /\ after.kind = "json") =>
               \A i \in 1..Len(after.val.v) :
                 \/ Contains(before.val.v, after.val.v[i])
                 \/ /\ last'.op = "saveAnalysis"
                    /\ after.val.v[i] = last'.args.analysis]_vars

\* C11: a call of syncLocalStorageToSupabase leaves every key of localStorage
\* as it was, whatever the upsert answered; and when the remote is not
\* available, or the list of the tenant is absent or empty, it leaves the
\* remote tables and the session as they were too.
C11_SyncKeepsLocal ==
  [][last'.op = "syncLocalStorageToSupabase" =>
       /\ localStorage' = localStorage
       /\ (~(env.window /\ env.url /\ env.key)
             \/ LocalList(last'.args.tenantId) = <<>>) =>
            /\ historico' = historico
            /\ usuario' = usuario
            /\ session' = session]_vars

\* a sync whose upsert stored a list of two records, one of them new to the
\* remote table
C11_Witness ==
  /\ last.op = "syncLocalStorageToSupabase"
  /\ last.path = "remote"
  /\ Len(LocalList(last.args.tenantId)) = 2
  /\ Cardinality(historico) = 2

\* C12: outside a browser (typeof window === 'undefined') every call returns
\* at once: it makes no remote call and no localStorage access, changes no
\* store and does not raise; getCurrentUser returns null, the three reads
\* return the empty list and the writes return nothing.
C12_ServerShortCircuit ==
  [][~env.window =>
       /\ historico' = historico
       /\ usuario' = usuario
       /\ session' = session
       /\ localStorage' = localStorage
       /\ last'.log = <<>>
       /\ ~last'.raised
       /\ last'.op = "getCurrentUser" => last'.ret = JNull
       /\ last'.op \in {"loadAnalyses", "getAnalysisByPeriod",
                         "getAnalysesByUser"} => last'.ret = <<>>
       /\ last'.op \in {"saveUser", "logout", "saveAnalysis",
                         "deleteAnalysis", "syncLocalStorageToSupabase"} =>
            last'.ret = Void]_vars

\* outside a browser, a read was asked for records the remote table holds
C12_Witness ==
  /\ ~env.window
  /\ env.url /\ env.key
  /\ last.op = "getAnalysesByUser"
  /\ \E row \in historico :
       /\ row.user_id = last.args.userId
       /\ row.tenant_id = last.args.tenantId

\* the fields an error list names, in order
ErrorFields(errors) == [i \in 1..Len(errors) |-> errors[i].field]

\* C13: validateFormData lists an error on vbv iff vbv <= 0, on
\* valoresPagosCliente iff it is < 0 and on base iff vbv minus
\* valoresPagosCliente is <= 0, each at most once; it gives exactly one warning
\* iff vrl + vrlj exceeds vbv - valoresPagosCliente and none otherwise; and
\* isValid is true iff the error list is empty, warnings or not.
C13_Validation ==
  last.op = "validateFormData" =>
    LET data == last.args.data
        vbv == NumberOrZero(data.vbv)
        vpc == NumberOrZero(data.valoresPagosCliente)
        rbr == vbv - vpc
        rol == NumberOrZero(data.vrl) + NumberOrZero(data.vrlj)
        fields == ErrorFields(last.ret.errors)
        count(f) == Cardinality({i \in 1..Len(fields) : fields[i] = f})
    IN /\ count("vbv") = (IF vbv <= 0 THEN 1 ELSE 0)
       /\ count("valoresPagosCliente") = (IF vpc < 0 THEN 1 ELSE 0)
       /\ count("base") = (IF rbr <= 0 THEN 1 ELSE 0)
       /\ Len(fields) = count("vbv") + count("valoresPagosCliente")
                          + count("base")
       /\ Len(last.ret.warnings) = (IF rol > rbr THEN 1 ELSE 0)
       /\ last.ret.isValid <=> (last.ret.errors = <<>>)

\* a form with rol > rbr and no error condition: one warning, and valid
C13_Witness ==
  /\ last.op = "validateFormData"
  /\ NumberOrZero(last.args.data.vbv) > 0
  /\ NumberOrZero(last.args.data.valoresPagosCliente) >= 0
  /\ NumberOrZero(last.args.data.vbv)
       - NumberOrZero(last.args.data.valoresPagosCliente) > 0
  /\ NumberOrZero(last.args.data.vrl) + NumberOrZero(last.args.data.vrlj)
       > NumberOrZero(last.args.data.vbv)
         - NumberOrZero(last.args.data.valoresPagosCliente)
  /\ Len(last.ret.warnings) = 1
  /\ last.ret.isValid

\* |x| * 2^k <= |y|, on exact values
Within(x, y, k) ==
  LET e == IF x.e + k < y.e THEN x.e + k ELSE y.e
      a == Trim(x.m \o Zeros(x.e + k - e))
      b == Trim(y.m \o Zeros(y.e - e))
  IN ~LessBits(b, a)

\* rol / rbr is a fraction with a power of two as denominator
Dyadic(rol, rbr) == \E k \in 0..LimbBits : (rol * 2^k) % rbr = 0

\* C14 as stated: the results of calculateMetrics satisfy, in the arithmetic
\* of the runtime, rbr = vbv - valoresPagosCliente, rol = vrl + vrlj,
\* valorRetidoIfood = rbr - rol; rentabilidadeLiquida = 0 and
\* retencaoIfoodPercentual = 100 when rbr <= 0;
\* rentabilidadeLiquida * rbr = rol * 100 when rbr > 0; and
\* rentabilidadeLiquida + retencaoIfoodPercentual = 100 always.
C14_ExactIdentities ==
  last.op = "calculateMetrics" =>
    LET data == last.args.data
        rbr == NumberOrZero(data.vbv) - NumberOrZero(data.valoresPagosCliente)
        rol == NumberOrZero(data.vrl) + NumberOrZero(data.vrlj)
        rentabilidade == last.ret.rentabilidadeLiquida
        retencao == last.ret.retencaoIfoodPercentual
    IN /\ last.ret.rbr = rbr
       /\ last.ret.rol = rol
       /\ last.ret.valorRetidoIfood = rbr - rol
       /\ rbr <= 0 => rentabilidade = Num(0) /\ retencao = Num(100)
       /\ rbr > 0 => Times(rentabilidade, Num(rbr)) = Num(rol * 100)
       /\ Plus(rentabilidade, retencao) = Num(100)

\* C14, amended: rbr, rol and valorRetidoIfood are exact, and so are the
\* percentages 0 and 100 when rbr <= 0; when rbr > 0 the two identities hold
\* up to the rounding of the division, the product and the difference:
\* |rentabilidadeLiquida * rbr - rol * 100| <= 2^-51 * |rol * 100| and
\* |rentabilidadeLiquida + retencaoIfoodPercentual - 100|
\*   <= 2^-53 * |100 - rentabilidadeLiquida|, on exact values; and they hold
\* exactly when rol / rbr has a power of two as denominator.  No store
\* changes.
C14_IdentitiesRounded ==
  last.op = "calculateMetrics" =>
    LET data == last.args.data
        rbr == NumberOrZero(data.vbv) - NumberOrZero(data.valoresPagosCliente)
        rol == NumberOrZero(data.vrl) + NumberOrZero(data.vrlj)
        rentabilidade == last.ret.rentabilidadeLiquida
        retencao == last.ret.retencaoIfoodPercentual
        product == Exact(rentabilidade, Num(rbr), "*")
        sum == Exact(rentabilidade, retencao, "+")
    IN /\ last.ret.rbr = rbr
       /\ last.ret.rol = rol
       /\ last.ret.valorRetidoIfood = rbr - rol
       /\ rbr <= 0 => rentabilidade = Num(0) /\ retencao = Num(100)
       /\ rbr > 0 =>
            /\ Within(Exact(product, Num(rol * 100), "-"), Num(rol * 100), 51)
            /\ Dyadic(rol, rbr) => product = Num(rol * 100)
       /\ Within(Exact(sum, Num(100), "-"),
                 Exact(Num(100), rentabilidade, "-"), 53)
       /\ (rbr > 0 /\ Dyadic(rol, rbr)) => sum = Num(100)
       /\ historico = {} /\ usuario = {} /\ session = {}
       /\ localStorage = [k \in Keys |-> NullItem]

\* calculateMetrics on a form with rol = 1 and rbr = 3: the profitability
\* times 3 is not 100
C14_Witness ==
  /\ last.op = "calculateMetrics"
  /\ last.ret.rbr = 3
  /\ last.ret.rol = 1
  /\ Times(last.ret.rentabilidadeLiquida, Num(3)) # Num(100)

\* C15: on a string of digits, '.', ',' and '-', normalizeNumber returns the
\* number read from the text in which, with both ',' and '.', every '.' is
\* dropped and ',' is the decimal point; with only ',', it is the decimal
\* point; with several '.', every '.' is dropped; with one '.', it is
\* dropped iff exactly 3 characters follow it; with no separator nothing
\* changes (0 when no number can be read).  So "50.889,20" gives 50889.20,
\* "1.234.567,89" gives 1234567.89, "123,45" gives 123.45, "1.000" gives
\* 1000 and "123.45" gives 123.45.
C15_SeparatorPolicy ==
  (last.op = "normalizeNumber" /\ ~Includes(last.args.value, <<"R">>)) =>
    LET value == last.args.value
        commas == {i \in 1..Len(value) : value[i] = ","}
        dots == {i \in 1..Len(value) : value[i] = "."}
        noDots == SelectSeq(value, LAMBDA c : c # ".")
        point(str) == [i \in 1..Len(str) |-> IF str[i] = "," THEN "." ELSE str[i]]
        policy ==
          IF commas # {} /\ dots # {} THEN point(noDots)
          ELSE IF commas # {} THEN point(value)
          ELSE IF Cardinality(dots) > 1 THEN noDots
          ELSE IF Cardinality(dots) = 1
                  /\ \E i \in dots : Len(value) - i = 3
          THEN noDots
          ELSE value
        read == parseFloat(policy)
    IN /\ last.ret = (IF read = NaN THEN Num(0) ELSE read)
       /\ value = <<"5", "0", ".", "8", "8", "9", ",", "2", "0">> =>
            last.ret = Over(5088920, 100)
       /\ value = <<"1", ".", "2", "3", "4", ".", "5", "6", "7", ",", "8", "9">>
            => last.ret = Over(123456789, 100)
       /\ value = <<"1", "2", "3", ",", "4", "5">> =>
            last.ret = Over(12345, 100)
       /\ value = <<"1", ".", "0", "0", "0">> => last.ret = Num(1000)
       /\ value = <<"1", "2", "3", ".", "4", "5">> =>
            last.ret = Over(12345, 100)

\* normalizeNumber was called on "50.889,20" and returned 50889.20
C15_Witness ==
  /\ last.op = "normalizeNumber"
  /\ last.args.value = <<"5", "0", ".", "8", "8", "9", ",", "2", "0">>
  /\ last.ret = Over(5088920, 100)

\* C16: on every string normalizeNumber returns a finite Number and does not
\* raise; a string without any digit, the empty string included, gives 0.
C16_Total ==
  last.op = "normalizeNumber" =>
    /\ ~last.raised
    /\ NumberIsFinite(last.ret)
    /\ last.ret = Canon(last.ret)
    /\ (\A i \in 1..Len(last.args.value) : ~IsDigit(last.args.value[i])) =>
         last.ret = Num(0)

\* normalizeNumber was called on a text of signs and commas without a digit
\* and returned 0
C16_Witness ==
  /\ last.op = "normalizeNumber"
  /\ last.args.value = <<"-", ",", ",", "-">>
  /\ last.ret = Num(0)

\* C17: in a browser, when a saveAnalysis(a) or a deleteAnalysis(id, t) was
\* not answered by the remote table (not available, or the write failed),
\* the key of the tenant holds a list afterwards: after the save, the list
\* it held before (none is the empty list) with a appended; after the
\* delete, the list it held before without the records of that id, the
\* others in their order.  No other key of localStorage changes, and neither
\* do the remote tables.
C17_FallbackConfined ==
  [][(/\ env.window
      /\ last'.op \in {"saveAnalysis", "deleteAnalysis"}
      /\ last'.path = "local") =>
       LET t == IF last'.op = "saveAnalysis"
                THEN last'.args.analysis.tenantId
                ELSE last'.args.tenantId
           after == localStorage'[AnalysesKey(t)]
       IN /\ after.kind = "json" /\ after.val.t = "array"
          /\ last'.op = "saveAnalysis" =>
               after.val.v = Append(LocalList(t), last'.args.analysis)
          /\ last'.op = "deleteAnalysis" =>
               after.val.v =
                 SelectSeq(LocalList(t),
                           LAMBDA a : a.id # last'.args.analysisId)
          /\ \A k \in Keys \ {AnalysesKey(t)} :
               localStorage'[k] = localStorage[k]
          /\ historico' = historico
          /\ usuario' = usuario
          /\ session' = session]_vars

\* C18: no call makes more than one attempt on the remote table
\* historicodeanalise, and none after it went to localStorage; a
\* getAnalysesByUser whose query failed issues no second query.
C18_SingleAttempt ==
  LET attempts ==
        {i \in 1..Len(last.log) :
           last.log[i] \in {"historicodeanalise.insert",
                            "historicodeanalise.select",
                            "historicodeanalise.delete",
                            "historicodeanalise.upsert"}}
      reads == {i \in 1..Len(last.log) : last.log[i] = "localStorage.getItem"}
  IN /\ Cardinality(attempts) <= 1
     /\ \A i \in attempts, j \in reads : i < j

\* C19: whatever path answered it, getAnalysesByUser(userId, tenantId)
\* returns only records of that user and that tenant, and all of them: each
\* matching row of the remote table once when the remote answered (its own
\* query, or the query of loadAnalyses), the matching records of the local
\* list of the tenant in their order when localStorage answered.
C19_UserRecords ==
  last.op = "getAnalysesByUser" =>
    LET u == last.args.userId
        t == last.args.tenantId
        ret == last.ret
    IN /\ \A i \in 1..Len(ret) : ret[i].userId = u /\ ret[i].tenantId = t
       /\ last.path \in {"remote", "reload"} =>
            /\ {ret[i] : i \in 1..Len(ret)} =
                 {FromRow(r) : r \in {x \in historico :
                                        x.user_id = u /\ x.tenant_id = t}}
            /\ Len(ret) = Cardinality({x \in historico :
                                         x.user_id = u /\ x.tenant_id = t})
       /\ last.path = "local" =>
            ret = SelectSeq(LocalList(t),
                            LAMBDA a : a.userId = u /\ a.tenantId = t)

\* getAnalysesByUser answered from a local list that also holds a record of
\* another user
C19_Witness ==
  /\ last.op = "getAnalysesByUser"
  /\ last.path = "local"
  /\ Len(last.ret) = 1
  /\ Len(LocalList(last.args.tenantId)) = 2

C21_DeletedStaysDeleted ==
  (last.op = "deleteAnalysis" /\ env.window /\ ~last.raised) =>
    \A r \in loadAnalyses(last.args.tenantId) :
      \A i \in 1..Len(r.ret) : r.ret[i].id # last.args.analysisId

====
